---- MODULE Spec2Model ----
(***************************************************************************)
(* Model of the GlobMart image pipeline: the ProductImage model (position  *)
(* auto-assignment hook, cdn_url getter), the BunnyCDNService storage      *)
(* client and the migrate-to-bunny-cdn script.                             *)
(***************************************************************************)
EXTENDS Integers, Sequences, FiniteSets, TLC

VARIABLES
    env,        \* process.env: STORAGE_URL, STORAGE_SERVER_BASE_URL, STORAGE_SERVER_ACCESS_KEY
    svc,        \* the BunnyCDNService singleton built at module load
    objects,    \* keys currently held by the storage zone
    call,       \* last BunnyCDNService call: operation and arguments
    result,     \* what that call did: return/throw, value, requests, attempts
    images,     \* the product_images table, rows in insertion order
    creating,   \* ProductImage.create calls in flight, one per caller
    hist,       \* history: what kinds of creation have happened so far
    job,        \* the run of the migration script: phase, locals, what it did
    instance,   \* a ProductImage instance whose cdn_url is read: url, s3_key
    reads       \* the values its cdn_url getter returned, in order

vars == <<env, svc, objects, call, result, images, creating, hist, job,
          instance, reads>>

svcVars == <<env, svc, objects, call, result>>
imageVars == <<images, creating, hist>>
urlVars == <<instance, reads>>

(***************************************************************************)
(* JavaScript values and string primitives                                 *)
(***************************************************************************)
\* the JavaScript value undefined (an unset environment variable)
Undefined == "<undefined>"

\* JavaScript truthiness of a string-or-undefined value
Truthy(v) == v # Undefined /\ v # ""

\* template-literal interpolation `${v}`
Str(v) == IF v = Undefined THEN "undefined" ELSE v

\* a || b
OrElse(a, b) == IF Truthy(a) THEN a ELSE b

\* the set of elements of a sequence
Range(q) == {q[i] : i \in 1..Len(q)}

(***************************************************************************)
(* BunnyCDNService                                                         *)
(***************************************************************************)
\* outcomes of one HTTP request made through axios; only testConnection
\* sets a timeout on its request
Outcomes == {"ok", "http_error", "network"}

ProbeOutcomes == Outcomes \cup {"timeout"}

\* error.message axios gives for a failed request
AxiosMessage(o) ==
    CASE o = "http_error" -> "Request failed with status code 401"
      [] o = "network"    -> "Network Error"
      [] o = "timeout"    -> "timeout of 10000ms exceeded"
      [] OTHER            -> ""

\* error.response?.status
AxiosStatus(o) == IF o = "http_error" THEN 401 ELSE 0

NotConfiguredMessage ==
    "Bunny CDN is not properly configured. Please check your environment variables."

\* constructor(): the three settings are read from process.env once
Constructor(e) ==
    [storageUrl    |-> e.STORAGE_URL,
     serverBaseUrl |-> e.STORAGE_SERVER_BASE_URL,
     accessKey     |-> e.STORAGE_SERVER_ACCESS_KEY]

isConfigured_NoAccessKey(s) ==
    Truthy(s.storageUrl) /\ Truthy(s.serverBaseUrl)

\* isConfigured(): !!(storageUrl && serverBaseUrl && accessKey)
isConfigured(s) ==
    Truthy(s.storageUrl) /\ Truthy(s.serverBaseUrl) /\ Truthy(s.accessKey)

\* getPublicUrl(key)
getPublicUrl(s, key) ==
    IF Truthy(s.serverBaseUrl)
    THEN Str(s.serverBaseUrl) \o "/" \o key
    ELSE Str(s.storageUrl) \o "/" \o key

Request(method, url) == [method |-> method, url |-> url]

uploadFile_Retry(s, size, key, contentType, o) ==
    IF ~isConfigured(s)
    THEN [kind |-> "throw", error |-> NotConfiguredMessage, requests |-> <<>>]
    ELSE LET put == Request("PUT", Str(s.storageUrl) \o "/" \o key)
         IN  IF o = "ok"
             THEN [kind |-> "return",
                   value |-> [key |-> key, url |-> getPublicUrl(s, key),
                              size |-> size, contentType |-> contentType],
                   requests |-> <<put>>]
             ELSE [kind |-> "throw",
                   error |-> "Bunny CDN upload failed: " \o AxiosMessage(o),
                   requests |-> <<put, put>>]

\* uploadFile(fileBuffer, key, contentType): size is fileBuffer.length,
\* o the outcome of the single axios.put
uploadFile(s, size, key, contentType, o) ==
    IF ~isConfigured(s)
    THEN [kind |-> "throw", error |-> NotConfiguredMessage, requests |-> <<>>]
    ELSE LET put == Request("PUT", Str(s.storageUrl) \o "/" \o key)
         IN  IF o = "ok"
             THEN [kind |-> "return",
                   value |-> [key |-> key, url |-> getPublicUrl(s, key),
                              size |-> size, contentType |-> contentType],
                   requests |-> <<put>>]
             ELSE [kind |-> "throw",
                   error |-> "Bunny CDN upload failed: " \o AxiosMessage(o),
                   requests |-> <<put>>]

\* deleteFile(key): o the outcome of the single axios.delete
deleteFile(s, key, o) ==
    IF ~isConfigured(s)
    THEN [kind |-> "throw", error |-> NotConfiguredMessage, requests |-> <<>>]
    ELSE LET del == Request("DELETE", Str(s.storageUrl) \o "/" \o key)
         IN  IF o = "ok"
             THEN [kind |-> "return", value |-> TRUE, requests |-> <<del>>]
             ELSE [kind |-> "throw",
                   error |-> "Bunny CDN delete failed: " \o AxiosMessage(o),
                   requests |-> <<del>>]

deleteFiles_StopAtFailure(s, keys, outs) ==
    LET firstBad == IF \E i \in 1..Len(keys) : deleteFile(s, keys[i], outs[i]).kind = "throw"
                    THEN CHOOSE i \in 1..Len(keys) :
                            /\ deleteFile(s, keys[i], outs[i]).kind = "throw"
                            /\ \A j \in 1..(i - 1) : deleteFile(s, keys[j], outs[j]).kind = "return"
                    ELSE Len(keys) + 1
         n == IF firstBad > Len(keys) THEN Len(keys) ELSE firstBad
    IN  [kind |-> "return",
         value |-> [successful |-> SubSeq(keys, 1, firstBad - 1),
                    failed |-> IF firstBad > Len(keys) THEN <<>>
                               ELSE <<[key |-> keys[firstBad],
                                       error |-> deleteFile(s, keys[firstBad], outs[firstBad]).error]>>],
         requests |-> IF isConfigured(s)
                      THEN [i \in 1..n |-> deleteFile(s, keys[i], outs[i]).requests[1]]
                      ELSE <<>>,
         attempts |-> SubSeq(keys, 1, n)]

\* the state of deleteFiles' loop after its first n iterations
RECURSIVE deleteFilesLoop(_, _, _, _)
deleteFilesLoop(s, keys, outs, n) ==
    IF n = 0
    THEN [successful |-> <<>>, failed |-> <<>>, requests |-> <<>>, attempts |-> <<>>]
    ELSE LET prev == deleteFilesLoop(s, keys, outs, n - 1)
             key  == keys[n]
             r    == deleteFile(s, key, outs[n])
         IN  [successful |-> IF r.kind = "return"
                             THEN Append(prev.successful, key)
                             ELSE prev.successful,
              failed     |-> IF r.kind = "throw"
                             THEN Append(prev.failed, [key |-> key, error |-> r.error])
                             ELSE prev.failed,
              requests   |-> prev.requests \o r.requests,
              attempts   |-> Append(prev.attempts, key)]

\* deleteFiles(keys): outs[i] is the outcome of the i-th key's request
deleteFiles(s, keys, outs) ==
    LET end == deleteFilesLoop(s, keys, outs, Len(keys))
    IN  [kind |-> "return",
         value |-> [successful |-> end.successful, failed |-> end.failed],
         requests |-> end.requests,
         attempts |-> end.attempts]

testConnection_Throws(s, o) ==
    IF ~isConfigured(s)
    THEN [kind |-> "return",
          value |-> [success |-> FALSE, error |-> "Bunny CDN is not properly configured",
                     status |-> 0],
          requests |-> <<>>]
    ELSE LET get == Request("GET", Str(s.storageUrl) \o "/")
         IN  IF o = "ok"
             THEN [kind |-> "return",
                   value |-> [success |-> TRUE, error |-> "", status |-> 200],
                   requests |-> <<get>>]
             ELSE [kind |-> "throw", error |-> AxiosMessage(o), requests |-> <<get>>]

\* testConnection(): o the outcome of the axios.get of the zone root
testConnection(s, o) ==
    IF ~isConfigured(s)
    THEN [kind |-> "return",
          value |-> [success |-> FALSE, error |-> "Bunny CDN is not properly configured",
                     status |-> 0],
          requests |-> <<>>]
    ELSE LET get == Request("GET", Str(s.storageUrl) \o "/")
         IN  IF o = "ok"
             THEN [kind |-> "return",
                   value |-> [success |-> TRUE, error |-> "", status |-> 200],
                   requests |-> <<get>>]
             ELSE [kind |-> "return",
                   value |-> [success |-> FALSE, error |-> AxiosMessage(o),
                              status |-> AxiosStatus(o)],
                   requests |-> <<get>>]

(***************************************************************************)
(* ProductImage: creation and the beforeCreate hook                        *)
(***************************************************************************)
\* the JavaScript value null (ProductImage.max over no rows)
Null == -1000

\* position values with no number in them
NoNumber == -1001

\* callers of ProductImage.create that can be in flight together
Creators == {"u1", "u2"}

\* product ids images are created for
Products == {1, 2}

\* rows inserted in one behaviour
MaxImages == 3

\* largest position a caller passes explicitly
MaxGivenPosition == 1

\* position: defaultValue of the column
PositionDefault == 0

\* isPrimary()
isPrimary(image) == image.position = 0

\* the position a new instance carries into its hooks when the caller gave
\* `given`: the ORM may fill in the column default for a missing attribute
BuildPosition(given) ==
    IF given = NoNumber THEN {NoNumber, PositionDefault} ELSE {given}

\* positions of the rows of product p, in insertion order
RECURSIVE PositionsOf(_, _)
PositionsOf(rows, p) ==
    IF rows = <<>> THEN <<>>
    ELSE LET rest == PositionsOf(Tail(rows), p)
         IN  IF Head(rows).product_id = p
             THEN <<Head(rows).position>> \o rest
             ELSE rest

\* ProductImage.max('position', {where: {product_id: p}})
MaxPosition(rows, p) ==
    LET ps == Range(PositionsOf(rows, p))
    IN  IF ps = {} THEN Null ELSE CHOOSE m \in ps : \A q \in ps : q <= m

\* maxPosition || -1 : null and 0 are both falsy
OrMinusOne(maxPosition) ==
    IF maxPosition = Null \/ maxPosition = 0 THEN -1 ELSE maxPosition

\* the position beforeCreate leaves on the instance
beforeCreate(position, rows, p) ==
    IF position = NoNumber \/ position = Null
    THEN OrMinusOne(MaxPosition(rows, p)) + 1
    ELSE position

Idle == [pc |-> "idle"]

\* the migration script is not part of the behaviour
NotStarted == [pc |-> "none"]

\* no instance is being displayed
InitNoInstance ==
    /\ instance = [url |-> Undefined, s3_key |-> Undefined]
    /\ reads = <<>>

InitImages ==
    /\ images = <<>>
    /\ creating = [c \in Creators |-> Idle]
    /\ hist = [overlapped |-> FALSE,   \* two creations were in flight together
               explicit   |-> FALSE,   \* a caller passed a position
               written    |-> FALSE]   \* a row was inserted since the table was last emptied

\* rows ever inserted and creations in flight
Started == Len(images) + Cardinality({c \in Creators : creating[c].pc # "idle"})

\* ProductImage.create({product_id, position?}): the instance is built
CreateBuild(c) ==
    /\ creating[c].pc = "idle"
    /\ Started < MaxImages
    /\ \E p \in Products, given \in {NoNumber} \cup 0..MaxGivenPosition :
         \E built \in BuildPosition(given) :
            /\ creating' = [creating EXCEPT ![c] =
                    [pc |-> "beforeCreate", product_id |-> p,
                     given |-> given, position |-> built, readMax |-> FALSE]]
            /\ hist' = [hist EXCEPT
                          !.overlapped = hist.overlapped
                                           \/ \E d \in Creators \ {c} : creating[d].pc # "idle",
                          !.explicit   = hist.explicit \/ given # NoNumber]
    /\ UNCHANGED images
    /\ UNCHANGED <<svcVars, job, urlVars>>

\* the beforeCreate hook runs: one max query, then the assignment
CreateHook(c) ==
    /\ creating[c].pc = "beforeCreate"
    /\ creating' = [creating EXCEPT ![c] =
            [@ EXCEPT !.pc = "insert",
                      !.readMax = (creating[c].position = NoNumber
                                      \/ creating[c].position = Null),
                      !.position = beforeCreate(creating[c].position, images,
                                                creating[c].product_id)]]
    /\ UNCHANGED <<images, hist>>
    /\ UNCHANGED <<svcVars, job, urlVars>>

\* the INSERT: the row gets the next id
CreateInsert(c) ==
    /\ creating[c].pc = "insert"
    /\ images' = Append(images, [id |-> Len(images) + 1,
                                 product_id |-> creating[c].product_id,
                                 position |-> creating[c].position])
    /\ creating' = [creating EXCEPT ![c] = Idle]
    /\ hist' = [hist EXCEPT !.written = TRUE]
    /\ UNCHANGED <<svcVars, job, urlVars>>

Init ==
    /\ env = [STORAGE_URL               |-> "https://storage.bunnycdn.com/globmart",
              STORAGE_SERVER_BASE_URL   |-> "https://globmart.b-cdn.net",
              STORAGE_SERVER_ACCESS_KEY |-> "secret"]
    /\ svc = Constructor(env)
    /\ objects = {}
    /\ call = [op |-> "none"]
    /\ result = [kind |-> "none"]
    /\ InitImages
    /\ job = NotStarted
    /\ InitNoInstance

Next ==
    \/ \E c \in Creators : CreateBuild(c)
    \/ \E c \in Creators : CreateHook(c)
    \/ \E c \in Creators : CreateInsert(c)

Spec == Init /\ [][Next]_vars

(***************************************************************************)
(* Properties of position auto-assignment                                  *)
(***************************************************************************)
\* C1: when images are created one after another, none with an explicit
\* position, the records of a product get positions 0, 1, 2, ... in creation
\* order, so only the first of them is primary.
C1_SequentialPositions ==
    (~hist.overlapped /\ ~hist.explicit) =>
        \A p \in Products :
            LET ps == PositionsOf(images, p)
            IN  /\ \A i \in 1..Len(ps) : ps[i] = i - 1
                /\ \A i \in 1..Len(images) :
                      (images[i].product_id = p /\ isPrimary(images[i]))
                          => \A j \in 1..(i - 1) : images[j].product_id # p

\* a creation that left its position to the hook and is between the hook's
\* read of the maximum and its INSERT
BetweenReadAndWrite(c) ==
    /\ creating[c].pc = "insert"
    /\ creating[c].readMax

\* C6: two creations for the same product, both without an explicit position,
\* are never both between the read of the maximum and the write of the row,
\* and the records created without an explicit position get distinct
\* positions within their product.
C6_SerializedPerProduct ==
    /\ \A c, d \in Creators :
          (c # d /\ BetweenReadAndWrite(c) /\ BetweenReadAndWrite(d))
              => creating[c].product_id # creating[d].product_id
    /\ ~hist.explicit =>
          \A i, j \in 1..Len(images) :
              (i # j /\ images[i].product_id = images[j].product_id)
                  => images[i].position # images[j].position

(***************************************************************************)
(* One call of the storage client.  The client keeps nothing between calls *)
(* but its read-only settings, so a behaviour is one call made on any      *)
(* content of the storage zone.                                            *)
(***************************************************************************)
\* longest key list handed to deleteFiles
MaxKeys == 3

\* file keys used by the callers
Keys == {"a", "b", "products/7/images/thumb/c.png"}

\* values an environment variable can have
EnvValues(v) == {Undefined, "", v}

Environments ==
    [STORAGE_URL               : EnvValues("https://storage.bunnycdn.com/globmart"),
     STORAGE_SERVER_BASE_URL   : EnvValues("https://globmart.b-cdn.net"),
     STORAGE_SERVER_ACCESS_KEY : EnvValues("secret")]

KeyLists == UNION {[1..n -> Keys] : n \in 0..MaxKeys}

\* contents of the storage zone a call can find: empty, or holding every key
Zones == {{}, Keys}

NoCall == [op |-> "none"]

InitSvc ==
    /\ env \in Environments
    /\ svc = Constructor(env)
    /\ objects \in Zones
    /\ call = NoCall
    /\ result = [kind |-> "none"]
    /\ InitImages
    /\ job = NotStarted
    /\ InitNoInstance

CallIsConfigured ==
    /\ call = NoCall
    /\ call' = [op |-> "isConfigured"]
    /\ result' = [kind |-> "return", value |-> isConfigured(svc), requests |-> <<>>]
    /\ UNCHANGED <<env, svc, objects>>
    /\ UNCHANGED <<imageVars, job, urlVars>>

CallUploadFile ==
    /\ call = NoCall
    /\ \E key \in Keys, size \in {0, 68}, o \in Outcomes :
        LET r == uploadFile(svc, size, key, "image/png", o)
        IN  /\ call' = [op |-> "uploadFile", key |-> key, size |-> size,
                        contentType |-> "image/png", outcome |-> o]
            /\ result' = r
            /\ objects' = IF r.kind = "return" THEN objects \cup {key} ELSE objects
            /\ UNCHANGED <<env, svc>>
            /\ UNCHANGED <<imageVars, job, urlVars>>

CallDeleteFile ==
    /\ call = NoCall
    /\ \E key \in Keys, o \in Outcomes :
        LET r == deleteFile(svc, key, o)
        IN  /\ call' = [op |-> "deleteFile", key |-> key, outcome |-> o]
            /\ result' = r
            /\ objects' = IF r.kind = "return" THEN objects \ {key} ELSE objects
            /\ UNCHANGED <<env, svc>>
            /\ UNCHANGED <<imageVars, job, urlVars>>

CallDeleteFiles ==
    /\ call = NoCall
    /\ \E keys \in KeyLists :
      \E outs \in [1..Len(keys) -> Outcomes] :
        LET r == deleteFiles(svc, keys, outs)
        IN  /\ call' = [op |-> "deleteFiles", keys |-> keys, outcomes |-> outs]
            /\ result' = r
            /\ objects' = objects \ {r.value.successful[i] : i \in 1..Len(r.value.successful)}
            /\ UNCHANGED <<env, svc>>
            /\ UNCHANGED <<imageVars, job, urlVars>>

CallTestConnection ==
    /\ call = NoCall
    /\ \E o \in ProbeOutcomes :
        /\ call' = [op |-> "testConnection", outcome |-> o]
        /\ result' = testConnection(svc, o)
        /\ UNCHANGED <<env, svc, objects>>
        /\ UNCHANGED <<imageVars, job, urlVars>>

NextSvc ==
    \/ CallIsConfigured
    \/ CallUploadFile
    \/ CallDeleteFile
    \/ CallDeleteFiles
    \/ CallTestConnection

SpecSvc == InitSvc /\ [][NextSvc]_vars

(***************************************************************************)
(* Properties of the storage client                                        *)
(***************************************************************************)
\* a setting is present and non-empty in the environment
Present(name) == env[name] # Undefined /\ env[name] # ""

AllPresent ==
    /\ Present("STORAGE_URL")
    /\ Present("STORAGE_SERVER_BASE_URL")
    /\ Present("STORAGE_SERVER_ACCESS_KEY")

\* C9: isConfigured() returns true iff the storage base URL, the public base
\* URL and the access credential are all present and non-empty, and it
\* issues no request.
C9_IsConfiguredIffAllPresent ==
    call.op = "isConfigured" =>
        /\ result.kind = "return"
        /\ result.value = AllPresent
        /\ result.requests = <<>>

\* isConfigured() answered false with only the access credential empty
C9_Witness ==
    /\ call.op = "isConfigured"
    /\ result.value = FALSE
    /\ Present("STORAGE_URL")
    /\ Present("STORAGE_SERVER_BASE_URL")
    /\ env.STORAGE_SERVER_ACCESS_KEY = ""

\* C7: uploadFile/deleteFile fail with the configuration error and no request
\* when the client is not configured; otherwise they issue exactly one
\* PUT/DELETE to storageBase/key, fail on any transport failure, and on
\* success return {key, url = publicBase/key, size, contentType} resp. true.
C7_PutDeleteOneRequest ==
    /\ call.op = "uploadFile" =>
         IF ~AllPresent
         THEN /\ result.kind = "throw"
              /\ result.error = NotConfiguredMessage
              /\ result.requests = <<>>
         ELSE /\ result.requests =
                    <<[method |-> "PUT", url |-> env.STORAGE_URL \o "/" \o call.key]>>
              /\ IF call.outcome = "ok"
                 THEN /\ result.kind = "return"
                      /\ result.value =
                            [key |-> call.key,
                             url |-> env.STORAGE_SERVER_BASE_URL \o "/" \o call.key,
                             size |-> call.size,
                             contentType |-> call.contentType]
                 ELSE /\ result.kind = "throw"
                      /\ result.error # NotConfiguredMessage
    /\ call.op = "deleteFile" =>
         IF ~AllPresent
         THEN /\ result.kind = "throw"
              /\ result.error = NotConfiguredMessage
              /\ result.requests = <<>>
         ELSE /\ result.requests =
                    <<[method |-> "DELETE", url |-> env.STORAGE_URL \o "/" \o call.key]>>
              /\ IF call.outcome = "ok"
                 THEN result.kind = "return" /\ result.value = TRUE
                 ELSE result.kind = "throw" /\ result.error # NotConfiguredMessage

\* a configured uploadFile whose single PUT failed on the network
C7_Witness ==
    /\ call.op = "uploadFile"
    /\ AllPresent
    /\ call.outcome = "network"
    /\ result.kind = "throw"
    /\ Len(result.requests) = 1

\* C8: testConnection() never throws; its result has success = true iff the
\* client is configured and the request succeeded, and an unconfigured client
\* issues no request.
C8_ProbeNeverThrows ==
    call.op = "testConnection" =>
        /\ result.kind = "return"
        /\ result.value.success = (AllPresent /\ call.outcome = "ok")
        /\ ~AllPresent => result.requests = <<>>

\* a configured probe whose request timed out
C8_Witness ==
    /\ call.op = "testConnection"
    /\ AllPresent
    /\ call.outcome = "timeout"
    /\ result.kind = "return"
    /\ result.value.success = FALSE

\* the i-th delete of the last deleteFiles call succeeded
DeleteSucceeded(i) == AllPresent /\ call.outcomes[i] = "ok"

\* how many of the first i deletes succeeded
SucceededUpTo(i) == Cardinality({j \in 1..i : DeleteSucceeded(j)})

FailedKeys == [i \in 1..Len(result.value.failed) |-> result.value.failed[i].key]

\* C5 as stated: every key is attempted once in list order, the call returns,
\* and every key is in exactly one of successful/failed, in successful iff
\* its delete succeeded.
C5_EveryKeyInExactlyOneList ==
    call.op = "deleteFiles" =>
        /\ result.kind = "return"
        /\ result.attempts = call.keys
        /\ \A i \in 1..Len(call.keys) :
              /\ (call.keys[i] \in Range(result.value.successful))
                    # (call.keys[i] \in Range(FailedKeys))
              /\ (call.keys[i] \in Range(result.value.successful)) <=> DeleteSucceeded(i)

\* C5 (amended): every list entry is attempted once in list order, the call
\* returns, and every entry is in exactly one of successful/failed, in
\* successful iff that entry's delete succeeded, both lists in input order.
C5_EveryEntryInExactlyOneList ==
    call.op = "deleteFiles" =>
        /\ result.kind = "return"
        /\ result.attempts = call.keys
        /\ Len(result.value.successful) = SucceededUpTo(Len(call.keys))
        /\ Len(result.value.failed) = Len(call.keys) - SucceededUpTo(Len(call.keys))
        /\ \A i \in 1..Len(call.keys) :
              IF DeleteSucceeded(i)
              THEN result.value.successful[SucceededUpTo(i)] = call.keys[i]
              ELSE FailedKeys[i - SucceededUpTo(i)] = call.keys[i]

\* deleteFiles(["a","b","c"]) where only the delete of "b" failed
C5_Witness ==
    /\ call.op = "deleteFiles"
    /\ AllPresent
    /\ call.keys = <<"a", "b", "products/7/images/thumb/c.png">>
    /\ call.outcomes = <<"ok", "http_error", "ok">>
    /\ result.value.successful = <<"a", "products/7/images/thumb/c.png">>
    /\ FailedKeys = <<"b">>

(***************************************************************************)
(* migrateToBunnyCDN: the migration script                                 *)
(***************************************************************************)
\* testKey
TestKey == "migration-test/connection-test.png"

\* testImageBuffer.length
TestImageSize == 70

\* the script has just been started
JobStart ==
    [pc |-> "CheckConfig",
     exitCode |-> NoNumber,         \* the process's exit status, once it ended
     executed |-> <<>>,             \* phases run, in order
     ops |-> <<>>,                  \* calls made on the models and the client
     requests |-> <<>>,             \* HTTP requests issued
     errors |-> <<>>,               \* "Migration failed" reports of the catch
     connectionTest |-> [success |-> FALSE, ran |-> FALSE],
     totalImages |-> NoNumber,
     deletedCount |-> NoNumber,
     remainingImages |-> NoNumber]

\* the record of a phase that made the calls `made` and issued `reqs`
Ran(j, phase, made, reqs) ==
    [j EXCEPT !.executed = Append(@, phase),
              !.ops = @ \o made,
              !.requests = @ \o reqs]

\* `return` out of migrateToBunnyCDN: the process ends with status 0
Return(j) == [j EXCEPT !.pc = "exited", !.exitCode = 0]

Catch_GoesOn(j, message) ==
    [j EXCEPT !.pc = "Done", !.errors = Append(@, message)]

\* the catch block: one report, then process.exit(1)
Catch(j, message) ==
    [j EXCEPT !.pc = "exited", !.exitCode = 1, !.errors = Append(@, message)]

\* the next phase starts
Goto(j, phase) == [j EXCEPT !.pc = phase]

DbError == "SequelizeConnectionError"

JobCheckConfig_Continue ==
    /\ job.pc = "CheckConfig"
    /\ job' = Goto(Ran(job, "CheckConfig", <<"isConfigured">>, <<>>), "TestConnection")
    /\ UNCHANGED <<svcVars, imageVars, urlVars>>

\* Step 1: isConfigured(), return when it is false
JobCheckConfig ==
    /\ job.pc = "CheckConfig"
    /\ LET ran == Ran(job, "CheckConfig", <<"isConfigured">>, <<>>)
       IN  job' = IF ~isConfigured(svc)
                  THEN Return(ran)
                  ELSE Goto(ran, "TestConnection")
    /\ UNCHANGED <<svcVars, imageVars, urlVars>>

\* Step 2: testConnection(), return when it reports failure
JobTestConnection ==
    /\ job.pc = "TestConnection"
    /\ \E o \in ProbeOutcomes :
         LET r   == testConnection(svc, o)
             ran == Ran(job, "TestConnection", <<"testConnection">>, r.requests)
         IN  job' = IF r.kind = "throw"
                    THEN Catch(ran, r.error)
                    ELSE LET got == [ran EXCEPT !.connectionTest =
                                        [success |-> r.value.success, ran |-> TRUE]]
                         IN  IF ~r.value.success
                             THEN Return(got)
                             ELSE Goto(got, "Inventory")
    /\ UNCHANGED <<svcVars, imageVars, urlVars>>

JobInventory_NoEarlyExit ==
    /\ job.pc = "Inventory"
    /\ \E failAt \in 0..2 :
         LET made == IF failAt = 1 THEN <<"ProductImage.count">>
                     ELSE <<"ProductImage.count", "Product.count">>
             ran  == Ran(job, "Inventory", made, <<>>)
             cnt  == IF failAt = 1 THEN ran
                     ELSE [ran EXCEPT !.totalImages = Len(images)]
         IN  job' = IF failAt # 0
                    THEN Catch(cnt, DbError)
                    ELSE Goto(cnt, "Sample")
    /\ UNCHANGED <<svcVars, imageVars, urlVars>>

\* Step 3: ProductImage.count(), Product.count(); return when there is no image.
\* failAt names the query that throws, 0 for none
JobInventory ==
    /\ job.pc = "Inventory"
    /\ \E failAt \in 0..2 :
         LET made == IF failAt = 1 THEN <<"ProductImage.count">>
                     ELSE <<"ProductImage.count", "Product.count">>
             ran  == Ran(job, "Inventory", made, <<>>)
             cnt  == IF failAt = 1 THEN ran
                     ELSE [ran EXCEPT !.totalImages = Len(images)]
         IN  job' = IF failAt # 0
                    THEN Catch(cnt, DbError)
                    ELSE IF cnt.totalImages = 0
                         THEN Return(cnt)
                         ELSE Goto(cnt, "Sample")
    /\ UNCHANGED <<svcVars, imageVars, urlVars>>

\* Step 4: ProductImage.findAll({limit: 5}), printed
JobSample ==
    /\ job.pc = "Sample"
    /\ \E ok \in BOOLEAN :
         LET ran == Ran(job, "Sample", <<"ProductImage.findAll">>, <<>>)
         IN  job' = IF ok THEN Goto(ran, "Purge") ELSE Catch(ran, DbError)
    /\ UNCHANGED <<svcVars, imageVars, urlVars>>

\* Step 6: ProductImage.destroy({where: {}, force: true})
JobPurge ==
    /\ job.pc = "Purge"
    /\ \E ok \in BOOLEAN :
         LET ran == Ran(job, "Purge", <<"ProductImage.destroy">>, <<>>)
         IN  /\ job' = IF ok
                       THEN Goto([ran EXCEPT !.deletedCount = Len(images)], "VerifyPurge")
                       ELSE Catch(ran, DbError)
             /\ images' = IF ok THEN <<>> ELSE images
             /\ hist' = IF ok THEN [hist EXCEPT !.written = FALSE] ELSE hist
    /\ UNCHANGED <<svcVars, creating, urlVars>>

JobVerifyPurge_Gate ==
    /\ job.pc = "VerifyPurge"
    /\ \E failAt \in 0..2 :
         LET made == IF failAt = 1 THEN <<"ProductImage.count">>
                     ELSE <<"ProductImage.count", "Product.count">>
             ran  == Ran(job, "VerifyPurge", made, <<>>)
             cnt  == IF failAt = 1 THEN ran
                     ELSE [ran EXCEPT !.remainingImages = Len(images)]
         IN  job' = IF failAt # 0
                    THEN Catch(cnt, DbError)
                    ELSE IF cnt.remainingImages # 0
                         THEN Return(cnt)
                         ELSE Goto(cnt, "SmokeTestUpload")
    /\ UNCHANGED <<svcVars, imageVars, urlVars>>

\* Step 7: ProductImage.count(), Product.count() again; a warning at most
JobVerifyPurge ==
    /\ job.pc = "VerifyPurge"
    /\ \E failAt \in 0..2 :
         LET made == IF failAt = 1 THEN <<"ProductImage.count">>
                     ELSE <<"ProductImage.count", "Product.count">>
             ran  == Ran(job, "VerifyPurge", made, <<>>)
             cnt  == IF failAt = 1 THEN ran
                     ELSE [ran EXCEPT !.remainingImages = Len(images)]
         IN  job' = IF failAt # 0
                    THEN Catch(cnt, DbError)
                    ELSE Goto(cnt, "SmokeTestUpload")
    /\ UNCHANGED <<svcVars, imageVars, urlVars>>

\* Step 8: uploadFile(testImageBuffer, testKey, 'image/png')
JobSmokeTestUpload ==
    /\ job.pc = "SmokeTestUpload"
    /\ \E o \in Outcomes :
         LET r   == uploadFile(svc, TestImageSize, TestKey, "image/png", o)
             ran == Ran(job, "SmokeTestUpload", <<"uploadFile">>, r.requests)
         IN  /\ job' = IF r.kind = "throw"
                       THEN Catch(ran, r.error)
                       ELSE Goto(ran, "SmokeTestDelete")
             /\ objects' = IF r.kind = "return" THEN objects \cup {TestKey} ELSE objects
    /\ UNCHANGED <<env, svc, call, result, imageVars, urlVars>>

JobSmokeTestDelete_IgnoreFailure ==
    /\ job.pc = "SmokeTestDelete"
    /\ \E o \in Outcomes :
         LET r   == deleteFile(svc, TestKey, o)
             ran == Ran(job, "SmokeTestDelete", <<"deleteFile">>, r.requests)
         IN  /\ job' = Goto(ran, "Done")
             /\ objects' = IF r.kind = "return" THEN objects \ {TestKey} ELSE objects
    /\ UNCHANGED <<env, svc, call, result, imageVars, urlVars>>

\* Clean up test file: deleteFile(testKey)
JobSmokeTestDelete ==
    /\ job.pc = "SmokeTestDelete"
    /\ \E o \in Outcomes :
         LET r   == deleteFile(svc, TestKey, o)
             ran == Ran(job, "SmokeTestDelete", <<"deleteFile">>, r.requests)
         IN  /\ job' = IF r.kind = "throw"
                       THEN Catch(ran, r.error)
                       ELSE Goto(ran, "Done")
             /\ objects' = IF r.kind = "return" THEN objects \ {TestKey} ELSE objects
    /\ UNCHANGED <<env, svc, call, result, imageVars, urlVars>>

\* Step 9: the summary is printed and the function returns
JobDone ==
    /\ job.pc = "Done"
    /\ job' = Return(Ran(job, "Done", <<>>, <<>>))
    /\ UNCHANGED <<svcVars, imageVars, urlVars>>

\* environments the script is started in
JobEnvironments ==
    {e \in Environments :
        Cardinality({n \in DOMAIN e : e[n] = Undefined \/ e[n] = ""}) <= 1}

InitJob ==
    /\ env \in JobEnvironments
    /\ svc = Constructor(env)
    /\ objects = {}
    /\ call = NoCall
    /\ result = [kind |-> "none"]
    /\ InitImages
    /\ job = JobStart
    /\ InitNoInstance

\* the caller that creates images while the script runs
Uploader == "u1"

\* rows the table comes to hold while the script is observed
MaxTableRows == 2

\* the application starts creating an image
UploadBegins ==
    /\ Started < MaxTableRows
    /\ CreateBuild(Uploader)

\* the script runs while the application goes on creating images
NextJob ==
    \/ JobCheckConfig
    \/ JobTestConnection
    \/ JobInventory
    \/ JobSample
    \/ JobPurge
    \/ JobVerifyPurge
    \/ JobSmokeTestUpload
    \/ JobSmokeTestDelete
    \/ JobDone
    \/ UploadBegins
    \/ CreateHook(Uploader)
    \/ CreateInsert(Uploader)

SpecJob == InitJob /\ [][NextJob]_vars

(***************************************************************************)
(* Properties of the migration script                                      *)
(***************************************************************************)
\* testConnection() was called and reported failure
ProbeFailed == job.connectionTest.ran /\ ~job.connectionTest.success

ProbeRequest == [method |-> "GET", url |-> env.STORAGE_URL \o "/"]

\* C2: a run that finds the client not configured stops at CheckConfig, and a
\* run whose probe reports failure stops at TestConnection: no query or
\* delete on the image table, no upload and no delete request is made.
C2_AbortsBeforeInventory ==
    /\ (~AllPresent /\ job.executed # <<>>) =>
          /\ job.pc = "exited"
          /\ job.executed = <<"CheckConfig">>
          /\ job.ops = <<"isConfigured">>
          /\ job.requests = <<>>
    /\ ProbeFailed =>
          /\ job.pc = "exited"
          /\ job.executed = <<"CheckConfig", "TestConnection">>
          /\ job.ops = <<"isConfigured", "testConnection">>
          /\ job.requests = <<ProbeRequest>>

\* the probe failed on a populated table and the run has ended
C2_Witness ==
    /\ ProbeFailed
    /\ job.pc = "exited"
    /\ Len(images) > 0

\* C3: when Inventory counts zero images the run ends at Inventory without
\* Purge and without any upload or delete request; it ends with status 0
\* unless a query of Inventory threw.
C3_EmptyStoreStopsAtInventory ==
    job.totalImages = 0 =>
        /\ job.pc = "exited"
        /\ job.executed = <<"CheckConfig", "TestConnection", "Inventory">>
        /\ "ProductImage.destroy" \notin Range(job.ops)
        /\ job.requests = <<ProbeRequest>>
        /\ job.errors = <<>> => job.exitCode = 0

\* Inventory counted zero images and the run ended with status 0
C3_Witness ==
    /\ job.totalImages = 0
    /\ job.pc = "exited"
    /\ job.exitCode = 0

\* C4: a run in which a phase failed (client not configured, probe failed, or
\* a phase threw) ends with one terminal error and a non-zero exit status;
\* the exit status is zero only when no phase failed.
C4_ExitStatusTellsFailure ==
    job.pc = "exited" =>
        LET failed == ~AllPresent \/ ProbeFailed \/ job.errors # <<>>
        IN  /\ failed => (job.exitCode # 0 /\ Len(job.errors) = 1)
            /\ job.exitCode = 0 => ~failed

(***************************************************************************)
(* ProductImage: the cdn_url getter                                        *)
(***************************************************************************)
\* s.startsWith(p)
StartsWith(s, p) == Len(p) <= Len(s) /\ SubSeq(s, 1, Len(p)) = p

\* positions at which p occurs in s
Occurrences(s, p) ==
    {i \in 1..(Len(s) - Len(p) + 1) : SubSeq(s, i, i + Len(p) - 1) = p}

\* s.includes(p)
Includes(s, p) == Occurrences(s, p) # {}

\* s.indexOf(p), counted from 1; p occurs in s
IndexOf(s, p) == CHOOSE i \in Occurrences(s, p) : \A j \in Occurrences(s, p) : i <= j

\* s.split(sep), sep not empty
RECURSIVE Split(_, _)
Split(s, sep) ==
    IF ~Includes(s, sep) THEN <<s>>
    ELSE LET i == IndexOf(s, sep)
         IN  <<SubSeq(s, 1, i - 1)>> \o Split(SubSeq(s, i + Len(sep), Len(s)), sep)

\* parts.join(sep)
RECURSIVE Join(_, _)
Join(parts, sep) ==
    IF parts = <<>> THEN ""
    ELSE IF Len(parts) = 1 THEN parts[1]
    ELSE parts[1] \o sep \o Join(Tail(parts), sep)

\* s.replace(p, r) with a string pattern: the first occurrence only
Replace(s, p, r) ==
    IF ~Includes(s, p) THEN s
    ELSE LET i == IndexOf(s, p)
         IN  SubSeq(s, 1, i - 1) \o r \o SubSeq(s, i + Len(p), Len(s))

\* hosts whose URLs are returned as they are
PlaceholderHosts ==
    {"via.placeholder.com", "placeholder.com", "picsum.photos", "unsplash.com",
     "loremflickr.com"}

BunnyHosts == {"b-cdn.net", "bunnycdn.com"}

DefaultCdnUrl == "https://prestious.b-cdn.net"

ImagePath_KeepBucket(s3_key) ==
    IF Includes(s3_key, "amazonaws.com/")
    THEN LET urlParts == Split(s3_key, "amazonaws.com/")
         IN  IF Len(urlParts) > 1 THEN urlParts[2] ELSE s3_key
    ELSE IF Includes(s3_key, "s3://")
    THEN Join(Split(Replace(s3_key, "s3://", ""), "/"), "/")
    ELSE s3_key

\* the path cdn_url derives from s3_key
ImagePath(s3_key) ==
    IF Includes(s3_key, "amazonaws.com/")
    THEN LET urlParts == Split(s3_key, "amazonaws.com/")
         IN  IF Len(urlParts) > 1 THEN urlParts[2] ELSE s3_key
    ELSE IF Includes(s3_key, "s3://")
    THEN Join(Tail(Split(Replace(s3_key, "s3://", ""), "/")), "/")
    ELSE s3_key

cdn_url_AlwaysPrefixed(img, e) ==
    IF /\ Truthy(img.url)
       /\ (StartsWith(img.url, "http://") \/ StartsWith(img.url, "https://"))
       /\ \E h \in PlaceholderHosts \cup BunnyHosts : Includes(img.url, h)
    THEN img.url
    ELSE IF Truthy(img.s3_key)
    THEN OrElse(e.STORAGE_SERVER_BASE_URL, DefaultCdnUrl) \o "/" \o ImagePath(img.s3_key)
    ELSE OrElse(e.STORAGE_SERVER_BASE_URL, DefaultCdnUrl) \o "/" \o Str(img.url)

\* the cdn_url getter of an instance, under environment e
cdn_url(img, e) ==
    IF /\ Truthy(img.url)
       /\ (StartsWith(img.url, "http://") \/ StartsWith(img.url, "https://"))
       /\ \E h \in PlaceholderHosts \cup BunnyHosts : Includes(img.url, h)
    THEN img.url
    ELSE IF Truthy(img.s3_key)
    THEN OrElse(e.STORAGE_SERVER_BASE_URL, DefaultCdnUrl) \o "/" \o ImagePath(img.s3_key)
    ELSE img.url

\* stored url values
Urls ==
    {Undefined, "",
     "https://via.placeholder.com/300",
     "http://picsum.photos/200",
     "https://globmart.b-cdn.net/products/1/a.png",
     "https://bucket.s3.amazonaws.com/products/1/a.png",
     "https://shop.example.com/a.png",
     "ftp://files.b-cdn.net/a.png",
     "/uploads/a.png"}

\* stored s3_key values
S3Keys ==
    {Undefined, "",
     "products/1/a.png",
     "https://bucket.s3.amazonaws.com/products/1/a.png",
     "https://bucket.s3.amazonaws.com/a/amazonaws.com/b.png",
     "s3://bucket/products/1/a.png",
     "s3://bucket",
     "s3://bucket/amazonaws.com/a.png",
     "backup/s3://bucket/a.png",
     "unsplash.com/a.png"}

\* values of STORAGE_SERVER_BASE_URL
CdnBases ==
    {Undefined, "", "https://globmart.b-cdn.net", "https://cdn.globmart.com",
     "cdn.globmart.com"}

InitUrl ==
    /\ \E base \in CdnBases :
         env = [STORAGE_URL               |-> "https://storage.bunnycdn.com/globmart",
                STORAGE_SERVER_BASE_URL   |-> base,
                STORAGE_SERVER_ACCESS_KEY |-> "secret"]
    /\ svc = Constructor(env)
    /\ objects = {}
    /\ call = NoCall
    /\ result = [kind |-> "none"]
    /\ InitImages
    /\ job = NotStarted
    /\ instance \in [url : Urls, s3_key : S3Keys]
    /\ reads = <<>>

\* reads of cdn_url in one behaviour
MaxReads == 2

\* image.cdn_url is read
ReadCdnUrl ==
    /\ Len(reads) < MaxReads
    /\ reads' = Append(reads, cdn_url(instance, env))
    /\ UNCHANGED <<svcVars, imageVars, job, instance>>

\* image.url = image.cdn_url: the last value read is stored as the url
StoreCdnUrl ==
    /\ reads # <<>>
    /\ instance.url # reads[Len(reads)]
    /\ instance' = [instance EXCEPT !.url = reads[Len(reads)]]
    /\ UNCHANGED <<svcVars, imageVars, job, reads>>

NextUrl ==
    \/ ReadCdnUrl
    \/ StoreCdnUrl

SpecUrl == InitUrl /\ [][NextUrl]_vars

(***************************************************************************)
(* Properties of the cdn_url getter                                        *)
(***************************************************************************)
\* C10: cdn_url is idempotent: once the value it returned is stored as the
\* record's url, every other field kept, cdn_url returns that same value.
C10_ResolveIdempotent ==
    (reads # <<>> /\ instance.url = reads[Len(reads)]) =>
        cdn_url(instance, env) = reads[Len(reads)]

\* a legacy s3:// key was resolved to a CDN URL, stored back, and read again
C10_Witness ==
    /\ Len(reads) = 2
    /\ instance.s3_key = "s3://bucket/products/1/a.png"
    /\ env.STORAGE_SERVER_BASE_URL = "https://cdn.globmart.com"
    /\ instance.url = "https://cdn.globmart.com/products/1/a.png"
    /\ reads[2] = instance.url

\* the key has the legacy shape s3://bucket/path
LegacyShape(key) == Truthy(key) /\ StartsWith(key, "s3://")

\* what follows the scheme and the bucket segment of a legacy key
LegacyPath(key) ==
    LET rest    == SubSeq(key, Len("s3://") + 1, Len(key))
        slashes == {i \in 1..Len(rest) : SubSeq(rest, i, i) = "/"}
    IN  IF slashes = {} THEN ""
        ELSE SubSeq(rest, (CHOOSE i \in slashes : \A j \in slashes : i <= j) + 1, Len(rest))

\* the CDN base in force: STORAGE_SERVER_BASE_URL, or the built-in default
CurrentCdnBase ==
    IF Present("STORAGE_SERVER_BASE_URL")
    THEN env.STORAGE_SERVER_BASE_URL
    ELSE "https://prestious.b-cdn.net"

\* the stored url is an http(s) URL naming a placeholder or Bunny CDN host
PassThroughUrl(url) ==
    /\ url # Undefined
    /\ \E scheme \in {"http://", "https://"} : StartsWith(url, scheme)
    /\ \E host \in {"via.placeholder.com", "placeholder.com", "picsum.photos",
                    "unsplash.com", "loremflickr.com", "b-cdn.net", "bunnycdn.com"} :
          Includes(url, host)

\* C11 as stated: for a record with a legacy s3://bucket/path key, whatever
\* its url holds, cdn_url is the CDN base, "/", and the key's path after the
\* scheme and the bucket segment.
C11_LegacyKeyWhateverUrl ==
    (reads # <<>> /\ LegacyShape(instance.s3_key)) =>
        reads[Len(reads)] = CurrentCdnBase \o "/" \o LegacyPath(instance.s3_key)

\* C11 (amended): for a record with a legacy s3://bucket/path key that does
\* not contain "amazonaws.com/", and whose url is not an http(s) URL of a
\* placeholder or Bunny CDN host, cdn_url is the CDN base, "/", and the key's
\* path after the scheme and the bucket segment.
C11_LegacyKeyResolved ==
    (/\ LegacyShape(instance.s3_key)
     /\ ~Includes(instance.s3_key, "amazonaws.com/")
     /\ ~PassThroughUrl(instance.url)) =>
        /\ cdn_url(instance, env) = CurrentCdnBase \o "/" \o LegacyPath(instance.s3_key)
        /\ reads # <<>> =>
              reads[Len(reads)] = CurrentCdnBase \o "/" \o LegacyPath(instance.s3_key)

\* a legacy key under a foreign url was read as base/path
C11_Witness ==
    /\ Len(reads) = 1
    /\ instance.s3_key = "s3://bucket/products/1/a.png"
    /\ instance.url = "https://shop.example.com/a.png"
    /\ env.STORAGE_SERVER_BASE_URL = "https://globmart.b-cdn.net"
    /\ reads[1] = "https://globmart.b-cdn.net/products/1/a.png"

(***************************************************************************)
(* Properties of the migration script: purge, failures, smoke test         *)
(***************************************************************************)
AllPhases ==
    <<"CheckConfig", "TestConnection", "Inventory", "Sample", "Purge",
      "VerifyPurge", "SmokeTestUpload", "SmokeTestDelete", "Done">>

\* the phase run last
LastPhase == job.executed[Len(job.executed)]

\* C12: on a populated table, with the client configured and reachable, Purge
\* deletes every row; with no row inserted since, the re-count of VerifyPurge
\* is 0; and whatever the re-count, the phase run after VerifyPurge is
\* SmokeTestUpload.  A run on a populated table in which nothing throws runs
\* all nine phases in order.
C12_PurgeThenSmokeTest ==
    /\ (job.deletedCount # NoNumber /\ ~hist.written) => images = <<>>
    /\ (job.remainingImages # NoNumber /\ ~hist.written) => job.remainingImages = 0
    /\ job.deletedCount # NoNumber => job.deletedCount >= 0
    /\ \A i \in 1..Len(job.executed) :
          (job.executed[i] = "VerifyPurge" /\ i < Len(job.executed))
              => job.executed[i + 1] = "SmokeTestUpload"
    /\ (job.executed # <<>> /\ LastPhase = "VerifyPurge") =>
          \/ job.pc = "SmokeTestUpload"
          \/ job.pc = "exited" /\ job.errors # <<>>
    /\ (job.pc = "exited" /\ job.errors = <<>>
            /\ job.totalImages # NoNumber /\ job.totalImages > 0) =>
          job.executed = AllPhases

\* two rows were purged, nothing was inserted since, the re-count was 0 and
\* the smoke-test upload has run
C12_Witness ==
    /\ job.deletedCount = 2
    /\ ~hist.written
    /\ job.remainingImages = 0
    /\ "SmokeTestUpload" \in Range(job.executed)

\* a sequence without repeated elements
NoRepeats(q) == \A i, k \in 1..Len(q) : q[i] = q[k] => i = k

\* C13: once a phase has thrown, the run is over: one report, status 1, no
\* phase run afterwards, nothing run twice; the step that catches the error
\* restores no row and removes no object, and a failed smoke-test upload is
\* not followed by the smoke-test delete.
C13_ThrowEndsTheRun ==
    [][/\ job'.pc # "none" =>
            /\ NoRepeats(job'.executed)
            /\ job'.errors # <<>> =>
                  /\ job'.pc = "exited"
                  /\ job'.exitCode = 1
                  /\ Len(job'.errors) = 1
            /\ (job'.errors # <<>> /\ job'.executed[Len(job'.executed)] = "SmokeTestUpload") =>
                  /\ "deleteFile" \notin Range(job'.ops)
                  /\ \A i \in 1..Len(job'.requests) : job'.requests[i].method # "DELETE"
       /\ (job.pc # "none" /\ job.errors # <<>>) => job' = job
       /\ (job.pc # "none" /\ job.errors = <<>> /\ job'.errors # <<>>) =>
            /\ images' = images
            /\ objects' = objects
      ]_vars

\* the smoke-test upload threw after a purge of two rows, which stay deleted
C13_Witness ==
    /\ job.errors # <<>>
    /\ LastPhase = "SmokeTestUpload"
    /\ job.deletedCount = 2
    /\ images = <<>>

TestPut == [method |-> "PUT", url |-> env.STORAGE_URL \o "/" \o "migration-test/connection-test.png"]

TestDelete == [method |-> "DELETE", url |-> env.STORAGE_URL \o "/" \o "migration-test/connection-test.png"]

\* C14: after a successful smoke-test upload the delete is issued next, for
\* the key that was uploaded; a run reaches Done only when that delete
\* succeeded, and then the test object is not in the storage zone.
C14_NoSmokeTestResidue ==
    /\ (job.executed # <<>> /\ LastPhase = "SmokeTestUpload" /\ job.errors = <<>>) =>
          /\ job.pc = "SmokeTestDelete"
          /\ job.requests = <<ProbeRequest, TestPut>>
    /\ "SmokeTestDelete" \in Range(job.executed) =>
          /\ Len(job.requests) = 3
          /\ job.requests[2] = TestPut
          /\ job.requests[3] = TestDelete
    /\ (job.pc = "Done" \/ "Done" \in Range(job.executed)) =>
          /\ "SmokeTestDelete" \in Range(job.executed)
          /\ job.errors = <<>>
          /\ "migration-test/connection-test.png" \notin objects

\* the run reached Done: upload and delete of the test key both succeeded
C14_Witness ==
    /\ job.pc = "exited"
    /\ job.executed = AllPhases
    /\ job.requests = <<ProbeRequest, TestPut, TestDelete>>
    /\ objects = {}

====
